---- MODULE Spec2Model ----
(***************************************************************************)
(* Model of src/app/components/SameGame.tsx: the board functions           *)
(* (findConnectedPanels, findFirstClickablePanel, applyGravity,            *)
(* refillBoard) as operators, and the component's state and handlers       *)
(* (handlePanelClick, the auto-mode interval, resetGame,                   *)
(* handleBoardSizeChange, the auto-mode checkbox) as a state machine.      *)
(* The wait-time slider is left out: a change of autoModeWaitTime re-runs  *)
(* the auto mode effect, which replaces a live interval by a live interval *)
(* and leaves every other piece of state alone.                            *)
(*                                                                         *)
(* Boards are functions row -> (col -> Panel) with rows and columns        *)
(* numbered from 0 as in the source; row 0 is the top row.                 *)
(*                                                                         *)
(* Scaling.  The source plays on boards of 8..128 cells a side towards the *)
(* tile 2147483648 = 2^31.  TLC's integers are 32-bit and its search is    *)
(* explicit, so the model plays on boards of 1..MaxBoardSize cells a side  *)
(* towards the tile 2^TargetExp; the base set {1, 2, 4} is the source's.   *)
(*                                                                         *)
(* React.  A handler's setState calls are batched into one commit, and the *)
(* auto mode effect of a commit (cleanup, then body) runs before any later *)
(* event or timer callback: a handler and the effect it triggers are one   *)
(* step.  handlePanelClick reads the state of the latest commit; the       *)
(* interval's updater receives the latest committed board.  SpecRace drops *)
(* this for the interval's callback: there the render of its update is a   *)
(* step of its own and a click may be handled before it.                   *)
(***************************************************************************)
EXTENDS Integers, Sequences, FiniteSets, TLC

\* ---------------------------------------------------------------- bounds
MaxBoardSize == 2
TargetExp == 3
MaxPendingResume == 2
HSize == 3
MaxHoles == 4

\* ------------------------------------------------------------- constants
\* type Panel = number | null: the empty panel.  Tiles are >= 1.
NULL == 0

\* the "no position" value of convertedPanelPosition and of
\* findFirstClickablePanel
NoPosition == <<>>

BOARD_SIZES == 1..MaxBoardSize

INITIAL_NUMBERS == {1, 2, 4}

TARGET_NUMBER == 2^TargetExp

Idx(boardSize) == 0..(boardSize - 1)

Cells(boardSize) == Idx(boardSize) \X Idx(boardSize)

Range(s) == {s[i] : i \in 1..Len(s)}

\* generateInitialBoard: every cell drawn independently from INITIAL_NUMBERS
generateInitialBoard(boardSize) ==
    [Idx(boardSize) -> [Idx(boardSize) -> INITIAL_NUMBERS]]

\* ---------------------------------------------------- findConnectedPanels
directionsDiag ==
    << <<-1, 0>>, <<1, 0>>, <<0, -1>>, <<0, 1>>, <<1, 1>>, <<-1, -1>> >>

directions == << <<-1, 0>>, <<1, 0>>, <<0, -1>>, <<0, 1>> >>

\* the neighbours the inner for loop pushes, in the order it pushes them
PushedNeighbours(row, col, boardSize, visited) ==
    LET cand == [i \in 1..Len(directions) |->
                    <<row + directions[i][1], col + directions[i][2]>>]
    IN  SelectSeq(cand, LAMBDA p :
            /\ p[1] >= 0
            /\ p[1] < boardSize
            /\ p[2] >= 0
            /\ p[2] < boardSize
            /\ p \notin visited)

\* the while loop over the queue
RECURSIVE ConnectedLoop(_, _, _, _, _, _)
ConnectedLoop(board, boardSize, targetNumber, queue, visited, connected) ==
    IF Len(queue) = 0
    THEN connected
    ELSE LET cur == Head(queue)
             rest == Tail(queue)
         IN  IF cur \in visited
             THEN ConnectedLoop(board, boardSize, targetNumber, rest, visited,
                                connected)
             ELSE LET visited2 == visited \cup {cur}
                  IN  IF board[cur[1]][cur[2]] = targetNumber
                      THEN ConnectedLoop(board, boardSize, targetNumber,
                               rest \o PushedNeighbours(cur[1], cur[2],
                                                        boardSize, visited2),
                               visited2, Append(connected, cur))
                      ELSE ConnectedLoop(board, boardSize, targetNumber, rest,
                                         visited2, connected)

findConnectedPanels(board, startRow, startCol, boardSize) ==
    LET targetNumber == board[startRow][startCol]
    IN  IF targetNumber = NULL
        THEN <<>>
        ELSE ConnectedLoop(board, boardSize, targetNumber,
                           << <<startRow, startCol>> >>, {}, <<>>)

\* ------------------------------------------------ findFirstClickablePanel
ScanOrderTopDown(boardSize) ==
    [k \in 1..(boardSize * boardSize) |->
        <<(k - 1) \div boardSize, (k - 1) % boardSize>>]

\* the scan order: rows from boardSize-1 down to 0, columns from 0 up
ScanOrder(boardSize) ==
    [k \in 1..(boardSize * boardSize) |->
        <<boardSize - 1 - ((k - 1) \div boardSize), (k - 1) % boardSize>>]

findFirstClickablePanel(board, boardSize) ==
    LET order == ScanOrder(boardSize)
        hits == SelectSeq(order, LAMBDA p :
                    /\ board[p[1]][p[2]] # NULL
                    /\ Len(findConnectedPanels(board, p[1], p[2], boardSize)) >= 2)
    IN  IF Len(hits) = 0 THEN NoPosition ELSE Head(hits)

\* ------------------------------------------------------------ applyGravity
\* the non-null panels of a column, top to bottom
columnPanels(board, boardSize, col) ==
    SelectSeq([i \in 1..boardSize |-> board[i - 1][col]], LAMBDA x : x # NULL)

\* pass 1 with the column written top-down instead of bottom-up
settleColumnsReversed(board, boardSize) ==
    [row \in Idx(boardSize) |-> [col \in Idx(boardSize) |->
        LET cp == columnPanels(board, boardSize, col)
            i == boardSize - 1 - row
        IN  IF i < Len(cp) THEN cp[i + 1] ELSE NULL]]

\* pass 1 whose placement loop stops one panel short (i < length - 1): the
\* top panel of every column is lost
settleColumnsLossy(board, boardSize) ==
    [row \in Idx(boardSize) |-> [col \in Idx(boardSize) |->
        LET cp == columnPanels(board, boardSize, col)
            i == boardSize - 1 - row
        IN  IF i < Len(cp) - 1 THEN cp[Len(cp) - i] ELSE NULL]]

\* pass 1: newBoard[boardSize-1-i][col] = columnPanels[length-1-i]
settleColumns(board, boardSize) ==
    [row \in Idx(boardSize) |-> [col \in Idx(boardSize) |->
        LET cp == columnPanels(board, boardSize, col)
            i == boardSize - 1 - row
        IN  IF i < Len(cp) THEN cp[Len(cp) - i] ELSE NULL]]

hasPanel(newBoard, boardSize, col) ==
    \E row \in Idx(boardSize) : newBoard[row][col] # NULL

\* pass 2 that copies every column to its own place
compactColumnsInPlace(newBoard, boardSize) ==
    [row \in Idx(boardSize) |-> [col \in Idx(boardSize) |-> newBoard[row][col]]]

\* pass 2: the columns that have a panel, copied in order to targetCol 0, 1, ..
compactColumns(newBoard, boardSize) ==
    LET kept == SelectSeq([i \in 1..boardSize |-> i - 1],
                          LAMBDA col : hasPanel(newBoard, boardSize, col))
    IN  [row \in Idx(boardSize) |-> [targetCol \in Idx(boardSize) |->
            IF targetCol < Len(kept)
            THEN newBoard[row][kept[targetCol + 1]]
            ELSE NULL]]

applyGravity(board, boardSize) ==
    compactColumns(settleColumns(board, boardSize), boardSize)

\* ------------------------------------------------------------- refillBoard
EmptyCells(board, boardSize) ==
    {p \in Cells(boardSize) : board[p[1]][p[2]] = NULL}

\* a random index one past the end of INITIAL_NUMBERS: no value
RandomFillsOffByOne(board, boardSize) ==
    [EmptyCells(board, boardSize) -> INITIAL_NUMBERS \cup {NULL}]

\* the values getRandomNumber() may return for the empty cells of a board
RandomFills(board, boardSize) ==
    [EmptyCells(board, boardSize) -> INITIAL_NUMBERS]

\* a refill that leaves the last column alone (col < boardSize - 1)
refillBoardShort(board, boardSize, rnd) ==
    [row \in Idx(boardSize) |-> [col \in Idx(boardSize) |->
        IF board[row][col] = NULL /\ col < boardSize - 1
        THEN rnd[<<row, col>>]
        ELSE board[row][col]]]

\* rnd[<<row, col>>] is what getRandomNumber() returned for that empty cell
refillBoard(board, boardSize, rnd) ==
    [row \in Idx(boardSize) |-> [col \in Idx(boardSize) |->
        IF board[row][col] = NULL
        THEN rnd[<<row, col>>]
        ELSE board[row][col]]]

\* ------------------------------------------------------------ the component
VARIABLES
    boardSize,                \* useState<BoardSize>
    board,                    \* useState<GameBoard>
    gameWon,                  \* useState(false)
    convertedPanelPosition,   \* useState<[number, number] | null>
    isAutoMode,               \* useState(false)
    autoModeIntervalRef,      \* TRUE: holds a live interval; FALSE: null
    pendingResume,            \* setTimeout(() => setIsAutoMode(true), 100) not yet fired
    last,                     \* the handler that ran last and the locals of its move
    pendingTick,              \* the interval's setBoard update awaiting its render
    resetSinceToggle,         \* history: reset or resized, checkbox not used since
    hPc, hIn, hSeed, hOut, hOut2   \* a board function applied to an input board

gameVars == <<boardSize, board, gameWon, convertedPanelPosition, isAutoMode,
              autoModeIntervalRef, pendingResume, last, pendingTick,
              resetSinceToggle>>

hVars == <<hPc, hIn, hSeed, hOut, hOut2>>

vars == <<boardSize, board, gameWon, convertedPanelPosition, isAutoMode,
          autoModeIntervalRef, pendingResume, last, pendingTick,
          resetSinceToggle,
          hPc, hIn, hSeed, hOut, hOut2>>

NoMove ==
    [kind |-> "init", row |-> 0, col |-> 0, from |-> <<>>,
     connectedPanels |-> <<>>, newBoard |-> <<>>, newValue |-> 0,
     gravityBoard |-> <<>>, wasAutoMode |-> FALSE]

\* no update of the interval awaits its render
NoTick ==
    [state |-> "none", from |-> <<>>, finalBoard |-> <<>>, win |-> FALSE,
     position |-> NoPosition]

\* --------------------------------------------------------- the merge step
maxRowTop(connectedPanels) ==
    CHOOSE m \in {p[1] : p \in Range(connectedPanels)} :
        \A p \in Range(connectedPanels) : p[1] >= m

\* Math.max(...connectedPanels.map(([r]) => r))
maxRow(connectedPanels) ==
    CHOOSE m \in {p[1] : p \in Range(connectedPanels)} :
        \A p \in Range(connectedPanels) : p[1] <= m

leftmostColMax(connectedPanels) ==
    LET bottomRowPanels ==
            SelectSeq(connectedPanels, LAMBDA p : p[1] = maxRow(connectedPanels))
    IN  CHOOSE m \in {p[2] : p \in Range(bottomRowPanels)} :
            \A p \in Range(bottomRowPanels) : p[2] <= m

\* bottomRowPanels = connectedPanels.filter(([r]) => r === maxRow);
\* Math.min(...bottomRowPanels.map(([, c]) => c))
leftmostCol(connectedPanels) ==
    LET bottomRowPanels ==
            SelectSeq(connectedPanels, LAMBDA p : p[1] = maxRow(connectedPanels))
    IN  CHOOSE m \in {p[2] : p \in Range(bottomRowPanels)} :
            \A p \in Range(bottomRowPanels) : p[2] >= m

\* newBoard after "Remove connected panels" and "Place the converted panel":
\* the board handed to applyGravity
mergedBoard(b, boardSize_, connectedPanels, newValue) ==
    [row \in Idx(boardSize_) |-> [col \in Idx(boardSize_) |->
        IF row = maxRow(connectedPanels) /\ col = leftmostCol(connectedPanels)
        THEN newValue
        ELSE IF <<row, col>> \in Range(connectedPanels)
             THEN NULL
             ELSE b[row][col]]]

\* the scan for the converted panel: first cell equal to newValue, rows from
\* the bottom, columns from the left
findConvertedPosition(finalBoard, boardSize_, newValue) ==
    LET hits == SelectSeq(ScanOrder(boardSize_),
                          LAMBDA p : finalBoard[p[1]][p[2]] = newValue)
    IN  IF Len(hits) = 0 THEN NoPosition ELSE Head(hits)

convertedValuePlus(originalValue) == originalValue + 2

\* const newValue = originalValue * 2
convertedValue(originalValue) == originalValue * 2

canMergeOne(connectedPanels) == Len(connectedPanels) >= 1

\* connectedPanels.length >= 2
canMerge(connectedPanels) == Len(connectedPanels) >= 2

isWinAbove(originalValue, newValue) == newValue > TARGET_NUMBER

isWinOriginal(originalValue, newValue) == originalValue = TARGET_NUMBER

\* newValue === TARGET_NUMBER
isWin(originalValue, newValue) == newValue = TARGET_NUMBER

clickRejectedNoWon(row, col) == board[row][col] = NULL

\* if (gameWon || board[row][col] === null) return;
clickRejected(row, col) == gameWon \/ board[row][col] = NULL

intervalWantedNoWon(auto, won) == auto

\* if (isAutoMode && !gameWon)
intervalWanted(auto, won) == auto /\ ~won

autoModeEffectNoCleanup ==
    autoModeIntervalRef' =
        IF <<isAutoMode', gameWon', boardSize'>> =
           <<isAutoMode, gameWon, boardSize>>
        THEN autoModeIntervalRef
        ELSE autoModeIntervalRef \/ intervalWanted(isAutoMode', gameWon')

\* the auto mode effect, run after a commit: when one of its dependencies
\* changed, its cleanup clears the interval and its body sets a new one iff
\* isAutoMode && !gameWon
autoModeEffect ==
    autoModeIntervalRef' =
        IF <<isAutoMode', gameWon', boardSize'>> =
           <<isAutoMode, gameWon, boardSize>>
        THEN autoModeIntervalRef
        ELSE intervalWanted(isAutoMode', gameWon')

\* ------------------------------------------------------------ the handlers
handlePanelClick(row, col) ==
    LET wasAutoMode == isAutoMode
        connectedPanels == findConnectedPanels(board, row, col, boardSize)
        originalValue == board[row][col]
        newValue == convertedValue(originalValue)
        newBoard == mergedBoard(board, boardSize, connectedPanels, newValue)
        gravityBoard == applyGravity(newBoard, boardSize)
    IN  \/ /\ clickRejected(row, col)
           /\ last' = [NoMove EXCEPT !.kind = "rejected", !.row = row, !.col = col,
                                     !.from = board,
                                     !.wasAutoMode = isAutoMode]
           /\ UNCHANGED <<boardSize, board, gameWon, convertedPanelPosition,
                          isAutoMode, autoModeIntervalRef,
                          pendingResume>>
        \/ /\ ~clickRejected(row, col)
           /\ ~canMerge(connectedPanels)
           /\ isAutoMode' = (IF wasAutoMode THEN TRUE ELSE isAutoMode)
           /\ last' = [NoMove EXCEPT !.kind = "single", !.row = row, !.col = col,
                                     !.from = board,
                                     !.wasAutoMode = isAutoMode,
                                     !.connectedPanels = connectedPanels]
           /\ UNCHANGED <<boardSize, board, gameWon, convertedPanelPosition,
                          pendingResume>>
           /\ autoModeEffect
        \/ /\ ~clickRejected(row, col)
           /\ canMerge(connectedPanels)
           /\ wasAutoMode => pendingResume < MaxPendingResume
           /\ gameWon' = (IF isWin(originalValue, newValue) THEN TRUE ELSE gameWon)
           /\ isAutoMode' = (IF wasAutoMode THEN FALSE ELSE isAutoMode)
           /\ pendingResume' = (IF wasAutoMode THEN pendingResume + 1
                                               ELSE pendingResume)
           /\ last' = [kind |-> "click", row |-> row, col |-> col, from |-> board,
                       connectedPanels |-> connectedPanels, newBoard |-> newBoard,
                       newValue |-> newValue, gravityBoard |-> gravityBoard,
                       wasAutoMode |-> wasAutoMode]
           /\ UNCHANGED boardSize
           /\ autoModeEffect
           /\ \E rnd \in RandomFills(last'.gravityBoard, boardSize) :
                LET finalBoard == refillBoard(last'.gravityBoard, boardSize, rnd)
                IN  /\ board' = finalBoard
                    /\ convertedPanelPosition' =
                           findConvertedPosition(finalBoard, boardSize, newValue)

resumeAutoModeLost ==
    /\ pendingResume > 0
    /\ pendingResume' = pendingResume - 1
    /\ isAutoMode' = isAutoMode
    /\ last' = [NoMove EXCEPT !.kind = "resume", !.wasAutoMode = isAutoMode]
    /\ UNCHANGED <<boardSize, board, gameWon, convertedPanelPosition>>
    /\ autoModeEffect

\* the callback of setTimeout(() => setIsAutoMode(true), 100)
resumeAutoMode ==
    /\ pendingResume > 0
    /\ pendingResume' = pendingResume - 1
    /\ isAutoMode' = TRUE
    /\ last' = [NoMove EXCEPT !.kind = "resume", !.wasAutoMode = isAutoMode]
    /\ UNCHANGED <<boardSize, board, gameWon, convertedPanelPosition>>
    /\ autoModeEffect

\* the callback of the interval: setBoard(currentBoard => ...)
autoTick ==
    /\ autoModeIntervalRef
    /\ LET clickablePanel == findFirstClickablePanel(board, boardSize)
           row == clickablePanel[1]
           col == clickablePanel[2]
           connectedPanels == findConnectedPanels(board, row, col, boardSize)
           originalValue == board[row][col]
           newValue == convertedValue(originalValue)
           newBoard == mergedBoard(board, boardSize, connectedPanels, newValue)
           gravityBoard == applyGravity(newBoard, boardSize)
           moves == IF clickablePanel = NoPosition
                    THEN FALSE
                    ELSE canMerge(connectedPanels)
       IN  \/ /\ ~moves
              /\ last' = [NoMove EXCEPT !.kind = "idle", !.from = board,
                                        !.wasAutoMode = isAutoMode]
              /\ UNCHANGED <<boardSize, board, gameWon, convertedPanelPosition,
                             isAutoMode, autoModeIntervalRef, pendingResume>>
           \/ /\ moves
              /\ gameWon' = (IF isWin(originalValue, newValue)
                             THEN TRUE ELSE gameWon)
              /\ isAutoMode' = (IF isWin(originalValue, newValue)
                                THEN FALSE ELSE isAutoMode)
              /\ last' = [kind |-> "tick", row |-> row, col |-> col,
                          from |-> board, connectedPanels |-> connectedPanels,
                          newBoard |-> newBoard, newValue |-> newValue,
                          gravityBoard |-> gravityBoard,
                          wasAutoMode |-> isAutoMode]
              /\ UNCHANGED <<boardSize, pendingResume>>
              /\ autoModeEffect
              /\ \E rnd \in RandomFills(last'.gravityBoard, boardSize) :
                   LET finalBoard ==
                           refillBoard(last'.gravityBoard, boardSize, rnd)
                   IN  /\ board' = finalBoard
                       /\ convertedPanelPosition' =
                              findConvertedPosition(finalBoard, boardSize,
                                                    newValue)

resetGame ==
    /\ board' \in generateInitialBoard(boardSize)
    /\ gameWon' = FALSE
    /\ convertedPanelPosition' = NoPosition
    /\ isAutoMode' = FALSE
    /\ last' = [NoMove EXCEPT !.kind = "reset", !.wasAutoMode = isAutoMode]
    /\ UNCHANGED <<boardSize, pendingResume>>
    /\ autoModeEffect

handleBoardSizeChange(newSize) ==
    /\ boardSize' = newSize
    /\ board' \in generateInitialBoard(newSize)
    /\ gameWon' = FALSE
    /\ convertedPanelPosition' = NoPosition
    /\ isAutoMode' = FALSE
    /\ last' = [NoMove EXCEPT !.kind = "resize", !.wasAutoMode = isAutoMode]
    /\ UNCHANGED <<pendingResume>>
    /\ autoModeEffect

\* the auto mode checkbox: onChange={(e) => setIsAutoMode(e.target.checked)},
\* disabled={gameWon}
toggleAutoMode ==
    /\ ~gameWon
    /\ isAutoMode' = ~isAutoMode
    /\ last' = [NoMove EXCEPT !.kind = "toggle", !.wasAutoMode = isAutoMode]
    /\ UNCHANGED <<boardSize, board, gameWon, convertedPanelPosition,
                   pendingResume>>
    /\ autoModeEffect

\* the state after the component's first render and its effects
Init ==
    /\ boardSize = MaxBoardSize
    /\ board \in generateInitialBoard(MaxBoardSize)
    /\ gameWon = FALSE
    /\ convertedPanelPosition = NoPosition
    /\ isAutoMode = FALSE
    /\ autoModeIntervalRef = FALSE
    /\ pendingResume = 0
    /\ last = NoMove
    /\ pendingTick = NoTick
    /\ resetSinceToggle = FALSE
    /\ hPc = "off"
    /\ hIn = <<>>
    /\ hSeed = <<>>
    /\ hOut = <<>>
    /\ hOut2 = <<>>

Click == \E row \in Idx(boardSize), col \in Idx(boardSize) :
             handlePanelClick(row, col)

Resize == \E newSize \in BOARD_SIZES : handleBoardSizeChange(newSize)

\* resetSinceToggle is a history variable: it records that resetGame or
\* handleBoardSizeChange ran and the auto mode checkbox was not used since.
Next ==
    \/ Click /\ UNCHANGED <<hVars, pendingTick, resetSinceToggle>>
    \/ autoTick /\ UNCHANGED <<hVars, pendingTick, resetSinceToggle>>
    \/ resumeAutoMode /\ UNCHANGED <<hVars, pendingTick, resetSinceToggle>>
    \/ resetGame /\ resetSinceToggle' = TRUE /\ UNCHANGED <<hVars, pendingTick>>
    \/ Resize /\ resetSinceToggle' = TRUE /\ UNCHANGED <<hVars, pendingTick>>
    \/ toggleAutoMode /\ resetSinceToggle' = FALSE
                      /\ UNCHANGED <<hVars, pendingTick>>

Spec == Init /\ [][Next]_vars

\* the resume timer fires: a timeout set with setTimeout(..., 100) runs its
\* callback once the 100 ms have passed
Resume == resumeAutoMode /\ UNCHANGED <<hVars, pendingTick, resetSinceToggle>>

SpecFair == Spec /\ WF_vars(Resume)

\* ------------------------------------- a click between callback and render
\* The interval's callback only queues its update, setBoard(currentBoard =>
\* ...); React renders it in a later task.  A click dispatched in between
\* runs the handlePanelClick of the latest commit, whose board is the one
\* the queued update was computed from, and its setBoard(finalBoard) is
\* queued behind the interval's update: whichever way the two are rendered,
\* the board that results is the click's.  Here the callback and the render
\* of its update are two steps, and a click may come between them; the
\* other handlers run only while no update is queued.
autoTickCallback ==
    /\ autoModeIntervalRef
    /\ pendingTick.state = "none"
    /\ LET clickablePanel == findFirstClickablePanel(board, boardSize)
           row == clickablePanel[1]
           col == clickablePanel[2]
           connectedPanels == findConnectedPanels(board, row, col, boardSize)
           originalValue == board[row][col]
           newValue == convertedValue(originalValue)
           newBoard == mergedBoard(board, boardSize, connectedPanels, newValue)
           gravityBoard == applyGravity(newBoard, boardSize)
           moves == IF clickablePanel = NoPosition
                    THEN FALSE
                    ELSE canMerge(connectedPanels)
       IN  \/ /\ ~moves
              /\ last' = [NoMove EXCEPT !.kind = "idle", !.from = board,
                                        !.wasAutoMode = isAutoMode]
              /\ UNCHANGED <<boardSize, board, gameWon, convertedPanelPosition,
                             isAutoMode, autoModeIntervalRef, pendingResume,
                             pendingTick>>
           \/ /\ moves
              /\ last' = [kind |-> "tick", row |-> row, col |-> col,
                          from |-> board, connectedPanels |-> connectedPanels,
                          newBoard |-> newBoard, newValue |-> newValue,
                          gravityBoard |-> gravityBoard,
                          wasAutoMode |-> isAutoMode]
              /\ UNCHANGED <<boardSize, board, gameWon, convertedPanelPosition,
                             isAutoMode, autoModeIntervalRef, pendingResume>>
              /\ \E rnd \in RandomFills(last'.gravityBoard, boardSize) :
                   LET finalBoard ==
                           refillBoard(last'.gravityBoard, boardSize, rnd)
                   IN  pendingTick' =
                           [state |-> "queued", from |-> board,
                            finalBoard |-> finalBoard,
                            win |-> isWin(originalValue, newValue),
                            position |-> findConvertedPosition(
                                             finalBoard, boardSize, newValue)]

\* the render of the interval's update.  After a click's setBoard the board
\* is the click's; the win flag and auto mode follow the interval's
\* setGameWon(true) and setIsAutoMode(false), and convertedPanelPosition is
\* the click's or the interval's.
renderTick ==
    /\ pendingTick.state # "none"
    /\ board' = (IF pendingTick.state = "queued"
                 THEN pendingTick.finalBoard ELSE board)
    /\ gameWon' = (IF pendingTick.win THEN TRUE ELSE gameWon)
    /\ isAutoMode' = (IF pendingTick.win THEN FALSE ELSE isAutoMode)
    /\ convertedPanelPosition' \in
           (IF pendingTick.state = "queued"
            THEN {pendingTick.position}
            ELSE {convertedPanelPosition, pendingTick.position})
    /\ pendingTick' = NoTick
    /\ last' = [NoMove EXCEPT !.kind = "render", !.wasAutoMode = isAutoMode]
    /\ UNCHANGED <<boardSize, pendingResume>>
    /\ autoModeEffect

\* a click while no update is queued, or between the interval's callback
\* and the render of its update
clickBeforeRender ==
    /\ pendingTick.state \in {"none", "queued"}
    /\ Click
    /\ pendingTick' = (IF pendingTick.state = "queued" /\ last'.kind = "click"
                       THEN [pendingTick EXCEPT !.state = "overwritten"]
                       ELSE pendingTick)

NextRace ==
    \/ clickBeforeRender /\ UNCHANGED <<hVars, resetSinceToggle>>
    \/ autoTickCallback /\ UNCHANGED <<hVars, resetSinceToggle>>
    \/ renderTick /\ UNCHANGED <<hVars, resetSinceToggle>>
    \/ /\ pendingTick.state = "none"
       /\ resumeAutoMode
       /\ UNCHANGED <<hVars, pendingTick, resetSinceToggle>>
    \/ /\ pendingTick.state = "none"
       /\ resetGame
       /\ resetSinceToggle' = TRUE
       /\ UNCHANGED <<hVars, pendingTick>>
    \/ /\ pendingTick.state = "none"
       /\ Resize
       /\ resetSinceToggle' = TRUE
       /\ UNCHANGED <<hVars, pendingTick>>
    \/ /\ pendingTick.state = "none"
       /\ toggleAutoMode
       /\ resetSinceToggle' = FALSE
       /\ UNCHANGED <<hVars, pendingTick>>

SpecRace == Init /\ [][NextRace]_vars

\* --------------------------------------- the board functions on any board
\* The board functions are pure: they are applied here to every board of
\* HSize x HSize cells over HValues, holes included.
HValues == {NULL, 1, 2}

HBoards == [Idx(HSize) -> [Idx(HSize) -> HValues]]

HInit ==
    /\ hPc = "input"
    /\ hIn \in HBoards
    /\ hSeed = <<>>
    /\ hOut = <<>>
    /\ hOut2 = <<>>
    /\ boardSize = HSize
    /\ board = <<>>
    /\ gameWon = FALSE
    /\ convertedPanelPosition = NoPosition
    /\ isAutoMode = FALSE
    /\ autoModeIntervalRef = FALSE
    /\ pendingResume = 0
    /\ last = NoMove
    /\ pendingTick = NoTick
    /\ resetSinceToggle = FALSE

HConnected ==
    /\ hPc = "input"
    /\ \E p \in Cells(HSize) :
         /\ hSeed' = p
         /\ hOut' = findConnectedPanels(hIn, p[1], p[2], HSize)
    /\ hPc' = "connected"
    /\ UNCHANGED <<hIn, hOut2>>
    /\ UNCHANGED gameVars

HGravity ==
    /\ hPc = "input"
    /\ hOut' = applyGravity(hIn, HSize)
    /\ hPc' = "gravity"
    /\ UNCHANGED <<hIn, hSeed, hOut2>>
    /\ UNCHANGED gameVars

HGravityAgain ==
    /\ hPc = "gravity"
    /\ hOut2' = applyGravity(hOut, HSize)
    /\ hPc' = "gravity2"
    /\ UNCHANGED <<hIn, hSeed, hOut>>
    /\ UNCHANGED gameVars

HRefill ==
    /\ hPc = "input"
    /\ Cardinality(EmptyCells(hIn, HSize)) <= MaxHoles
    /\ \E rnd \in RandomFills(hIn, HSize) :
         /\ hSeed' = rnd
         /\ hOut' = refillBoard(hIn, HSize, rnd)
    /\ hPc' = "refill"
    /\ UNCHANGED <<hIn, hOut2>>
    /\ UNCHANGED gameVars

HFirst ==
    /\ hPc = "input"
    /\ hOut' = findFirstClickablePanel(hIn, HSize)
    /\ hPc' = "first"
    /\ UNCHANGED <<hIn, hSeed, hOut2>>
    /\ UNCHANGED gameVars

SpecFirst == HInit /\ [][HFirst]_vars

\* the merge step of a move and the gravity that follows it, on full boards
HFullInit == HInit /\ EmptyCells(hIn, HSize) = {}

HMerge ==
    /\ hPc = "input"
    /\ \E p \in Cells(HSize) :
         LET connectedPanels == findConnectedPanels(hIn, p[1], p[2], HSize)
             originalValue == hIn[p[1]][p[2]]
             newValue == convertedValue(originalValue)
             newBoard == mergedBoard(hIn, HSize, connectedPanels, newValue)
         IN  /\ canMerge(connectedPanels)
             /\ hSeed' = p
             /\ hOut' = newBoard
             /\ hOut2' = applyGravity(newBoard, HSize)
    /\ hPc' = "merged"
    /\ UNCHANGED hIn
    /\ UNCHANGED gameVars

SpecMerge == HFullInit /\ [][HMerge]_vars

SpecConnected == HInit /\ [][HConnected]_vars

NextGravity == HGravity \/ HGravityAgain

SpecGravity == HInit /\ [][NextGravity]_vars

SpecRefill == HInit /\ [][HRefill]_vars

\* ------------------------------------------------------------ the claims
Adjacent(p, q) ==
    \/ p[1] = q[1] /\ (p[2] = q[2] + 1 \/ q[2] = p[2] + 1)
    \/ p[2] = q[2] /\ (p[1] = q[1] + 1 \/ q[1] = p[1] + 1)

\* the cells reachable from S through edge-adjacent cells holding v
RECURSIVE Grow(_, _, _, _)
Grow(b, n, v, S) ==
    LET T == S \cup {q \in Cells(n) :
                       b[q[1]][q[2]] = v /\ \E p \in S : Adjacent(p, q)}
    IN  IF T = S THEN S ELSE Grow(b, n, v, T)

Region(b, n, seed) == Grow(b, n, b[seed[1]][seed[2]], {seed})

\* C5: findConnectedPanels returns, for a non-empty seed, exactly the maximal
\* 4-connected set of cells holding the seed's value that contains the seed,
\* each coordinate once; for an empty seed it returns the empty list.
C5_RegionExact ==
    hPc = "connected" =>
        IF hIn[hSeed[1]][hSeed[2]] = NULL
        THEN hOut = <<>>
        ELSE /\ Range(hOut) = Region(hIn, HSize, hSeed)
             /\ Cardinality(Range(hOut)) = Len(hOut)
             /\ hSeed \in Range(hOut)

\* a bent region of three or more cells, with a cell of the same value that
\* touches it only by a corner and is left out
C5_Witness ==
    /\ hPc = "connected"
    /\ Len(hOut) >= 3
    /\ \E p \in Range(hOut), q \in Cells(HSize) \ Range(hOut) :
         /\ hIn[q[1]][q[2]] = hIn[hSeed[1]][hSeed[2]]
         /\ p[1] # q[1]
         /\ p[2] # q[2]
         /\ p[1] - q[1] \in {-1, 1}
         /\ p[2] - q[2] \in {-1, 1}
    /\ \E p, q \in Range(hOut) : p[1] # q[1] /\ p[2] # q[2]

ColumnHasTile(b, n, col) == \E row \in Idx(n) : b[row][col] # NULL

\* C7: after applyGravity no column has an empty cell below a tile, and no
\* column with a tile has a column without tiles on its left.
C7_Settled ==
    hPc = "gravity" =>
        /\ \A col \in Idx(HSize), row \in Idx(HSize) :
             (row + 1 < HSize /\ hOut[row][col] # NULL)
                 => hOut[row + 1][col] # NULL
        /\ \A i, j \in Idx(HSize) :
             (i < j /\ ColumnHasTile(hOut, HSize, j))
                 => ColumnHasTile(hOut, HSize, i)

\* the input had a hole under a tile and an empty column left of a tile
C7_Witness ==
    /\ hPc = "gravity"
    /\ \E col \in Idx(HSize), row \in Idx(HSize) :
         row + 1 < HSize /\ hIn[row][col] # NULL /\ hIn[row + 1][col] = NULL
    /\ \E i, j \in Idx(HSize) :
         i < j /\ ColumnHasTile(hIn, HSize, j) /\ ~ColumnHasTile(hIn, HSize, i)

CountOf(b, n, v) == Cardinality({p \in Cells(n) : b[p[1]][p[2]] = v})

\* the tiles of a column from the top, and the non-empty columns from the left
TilesOfColumn(b, n, col) ==
    LET rows == SelectSeq([i \in 1..n |-> i - 1], LAMBDA r : b[r][col] # NULL)
    IN  [k \in 1..Len(rows) |-> b[rows[k]][col]]

TileColumns(b, n) ==
    LET cols == SelectSeq([i \in 1..n |-> i - 1],
                          LAMBDA c : ColumnHasTile(b, n, c))
    IN  [k \in 1..Len(cols) |-> TilesOfColumn(b, n, cols[k])]

\* C8: applyGravity keeps every value as many times as the input has it, the
\* top-to-bottom order of the tiles of each column and the left-to-right
\* order of the columns that have tiles.
C8_Conserved ==
    hPc = "gravity" =>
        /\ \A v \in HValues \ {NULL} :
             CountOf(hOut, HSize, v) = CountOf(hIn, HSize, v)
        /\ TileColumns(hOut, HSize) = TileColumns(hIn, HSize)

\* gravity moved tiles of two different values within one column and shifted
\* a column to the left
C8_Witness ==
    /\ hPc = "gravity"
    /\ hOut # hIn
    /\ \E col \in Idx(HSize) :
         /\ Len(TilesOfColumn(hIn, HSize, col)) = 2
         /\ TilesOfColumn(hIn, HSize, col)[1] # TilesOfColumn(hIn, HSize, col)[2]
         /\ hIn[HSize - 1][col] = NULL
    /\ \E col \in Idx(HSize) :
         ~ColumnHasTile(hIn, HSize, col) /\ ColumnHasTile(hIn, HSize, HSize - 1)

\* C9: applyGravity applied to its own result returns that result.
C9_Idempotent == hPc = "gravity2" => hOut2 = hOut

\* the first application changed the board
C9_Witness ==
    /\ hPc = "gravity2"
    /\ hOut # hIn
    /\ \E col \in Idx(HSize) : Len(TilesOfColumn(hIn, HSize, col)) = 2

\* C10: refillBoard leaves no empty cell, keeps every non-empty cell and
\* gives every empty cell a value of the base set {1, 2, 4}.
C10_Refilled ==
    hPc = "refill" =>
        \A p \in Cells(HSize) :
            /\ hOut[p[1]][p[2]] # NULL
            /\ hIn[p[1]][p[2]] # NULL => hOut[p[1]][p[2]] = hIn[p[1]][p[2]]
            /\ hIn[p[1]][p[2]] = NULL => hOut[p[1]][p[2]] \in {1, 2, 4}

\* a refill of a board with holes and tiles, holes in the last column too
C10_Witness ==
    /\ hPc = "refill"
    /\ \E p \in Cells(HSize) : hIn[p[1]][p[2]] # NULL
    /\ \E row \in Idx(HSize) : hIn[row][HSize - 1] = NULL
    /\ \E row \in Idx(HSize) : hIn[row][0] = NULL

\* ------------------------------------------------- the claims on the game
Moves == {"click", "tick"}

Clicks == {"rejected", "single", "click"}

\* C1: while gameWon is true neither a manual click nor a tick of the
\* interval changes the board.
C1_WonBoardFrozen ==
    [][(gameWon /\ (Click \/ autoTick)) => board' = board]_vars

\* a click issued after the win, with auto mode switched on again by the
\* resume timer of the winning click
C1_Witness ==
    /\ gameWon
    /\ isAutoMode
    /\ last.kind = "rejected"
    /\ last.from = board
    /\ findFirstClickablePanel(board, boardSize) # NoPosition

\* C2 as claimed: once true, gameWon is true in every later state, whatever
\* the operation.
C2_Original == [][gameWon => gameWon']_vars

\* C2: gameWon, once true, stays true under every operation but resetGame
\* and handleBoardSizeChange, and a winning merge only ever happens while it
\* is false: between two resets it is set once.
C2_StickyUntilReset ==
    [][/\ (gameWon /\ last'.kind \notin {"reset", "resize"}) => gameWon'
       /\ (last'.kind \in Moves /\ last'.newValue = TARGET_NUMBER) => ~gameWon
      ]_vars

\* a won game that was clicked on and is still won
C2_Witness ==
    /\ gameWon
    /\ last.kind = "rejected"
    /\ pendingResume = 0
    /\ isAutoMode

\* C3: a move sets gameWon to true exactly when the value it writes, twice
\* the value of the region, is TARGET_NUMBER; any other move leaves gameWon
\* as it was.
C3_WinIffTarget ==
    [][last'.kind \in Moves =>
          /\ last'.newValue = 2 * board[last'.row][last'.col]
          /\ gameWon' = (last'.newValue = TARGET_NUMBER)
          /\ last'.newValue # TARGET_NUMBER => gameWon' = gameWon
      ]_vars

\* a tick wrote the target tile and the game is won
C3_Witness ==
    /\ last.kind = "tick"
    /\ last.newValue = TARGET_NUMBER
    /\ gameWon
    /\ \E p \in Cells(boardSize) : board[p[1]][p[2]] = TARGET_NUMBER

\* C4: a click on a tile whose region has one member changes neither the
\* board, nor gameWon, nor convertedPanelPosition, and leaves auto mode on
\* if it was on.
C4_SingleIsNoOp ==
    [][(/\ last'.kind \in Clicks
        /\ board[last'.row][last'.col] # NULL
        /\ Cardinality(Region(board, boardSize, <<last'.row, last'.col>>)) = 1)
       => /\ board' = board
          /\ gameWon' = gameWon
          /\ convertedPanelPosition' = convertedPanelPosition
          /\ isAutoMode => isAutoMode'
          /\ autoModeIntervalRef' = autoModeIntervalRef
      ]_vars

\* a lone tile was clicked while auto mode was on and a converted panel was
\* marked
C4_Witness ==
    /\ last.kind = "single"
    /\ Len(last.connectedPanels) = 1
    /\ isAutoMode
    /\ autoModeIntervalRef
    /\ convertedPanelPosition # NoPosition
    /\ ~gameWon

\* the member of a region in its bottom row that is furthest to the left
Destination(R) ==
    CHOOSE d \in R :
        /\ \A p \in R : p[1] <= d[1]
        /\ \A p \in R : p[1] = d[1] => p[2] >= d[2]

\* C6: the board a move hands to applyGravity has twice the region's value
\* in the region's bottom-most, then left-most, member, no tile in the other
\* members, and the old value everywhere else.
C6_MergedBoard ==
    last.kind \in Moves =>
        LET n == boardSize
            R == Region(last.from, n, <<last.row, last.col>>)
            v == last.from[last.row][last.col]
            d == Destination(R)
        IN  /\ Cardinality(R) >= 2
            /\ \A p \in Cells(n) :
                 last.newBoard[p[1]][p[2]] =
                     IF p = d THEN 2 * v
                     ELSE IF p \in R THEN NULL
                     ELSE last.from[p[1]][p[2]]

\* a move on a bent region whose destination is not in the region's
\* left-most column, with a tile outside the region
C6_Witness ==
    /\ last.kind \in Moves
    /\ Len(last.connectedPanels) = 3
    /\ \E p \in Range(last.connectedPanels) :
         /\ p[2] < leftmostCol(last.connectedPanels)
         /\ p[1] < maxRow(last.connectedPanels)
    /\ \E p \in Cells(boardSize) :
         /\ p \notin Range(last.connectedPanels)
         /\ last.newBoard[p[1]][p[2]] = last.from[p[1]][p[2]]

\* ---------------------------------- the claims on findFirstClickablePanel
\* p is visited before q: rows from the bottom, columns from the left
Before(p, q) == p[1] > q[1] \/ (p[1] = q[1] /\ p[2] < q[2])

\* the cells a click can merge: a tile whose region has two members or more
Clickable(b, n) ==
    {p \in Cells(n) : b[p[1]][p[2]] # NULL /\ Cardinality(Region(b, n, p)) >= 2}

\* C11: findFirstClickablePanel returns the first cell, rows from the bottom
\* and columns from the left, whose region has at least two members, and it
\* returns no coordinate exactly when no cell has such a region.
C11_FirstClickable ==
    hPc = "first" =>
        /\ (hOut = NoPosition) <=> (Clickable(hIn, HSize) = {})
        /\ hOut # NoPosition =>
             /\ hOut \in Clickable(hIn, HSize)
             /\ \A q \in Clickable(hIn, HSize) : q = hOut \/ Before(hOut, q)

\* the bottom row has no clickable cell, the answer is neither in the
\* left-most column nor the only clickable cell of its row, and the board
\* has a hole
C11_Witness ==
    /\ hPc = "first"
    /\ hOut # NoPosition
    /\ hOut[1] < HSize - 1
    /\ hOut[2] > 0
    /\ \E q \in Clickable(hIn, HSize) : q[1] < hOut[1]
    /\ \E q \in Cells(HSize) : hIn[q[1]][q[2]] = NULL

\* ------------------------------------------- the claims on the automation
\* C12: in every reachable state where auto mode is off no interval is
\* live, so after resetGame, handleBoardSizeChange or unchecking the auto
\* mode checkbox no tick of an interval set before changes the board until
\* auto mode is on again.
C12_NoStaleTick ==
    [][/\ ~isAutoMode => ~autoModeIntervalRef
       /\ ~isAutoMode' => ~autoModeIntervalRef'
       /\ (~isAutoMode /\ autoTick) => board' = board]_vars

\* auto mode was on with a live interval and a move to make when the game
\* was reset, resized or the checkbox unchecked
C12_Witness ==
    /\ last.kind \in {"reset", "resize", "toggle"}
    /\ last.wasAutoMode
    /\ ~isAutoMode
    /\ ~autoModeIntervalRef
    /\ ~gameWon
    /\ findFirstClickablePanel(board, boardSize) # NoPosition

\* C13: a tick that finds no eligible move halts the automation: it leaves
\* the board and the win flag unchanged, and auto mode is off with no
\* interval live afterwards.
C13_HaltsWhenStuck ==
    [][(autoTick /\ last'.kind = "idle") =>
           /\ board' = board
           /\ gameWon' = gameWon
           /\ ~isAutoMode'
           /\ ~autoModeIntervalRef']_vars

\* C14: a click that merges while auto mode is on turns auto mode off in
\* the commit of its move, with no interval live, so no tick runs on the
\* board it was computed from; its resume timer eventually turns auto mode
\* on again, and when it fires right after the click the interval is set
\* anew on the board the click committed.
C14_SuspendResume ==
    /\ [][(last'.kind = "click" /\ last'.wasAutoMode) =>
              /\ ~isAutoMode'
              /\ ~autoModeIntervalRef'
              /\ pendingResume' = pendingResume + 1]_vars
    /\ [][(last'.kind = "resume" /\ last.kind = "click" /\ last.wasAutoMode) =>
              /\ isAutoMode'
              /\ board' = board
              /\ autoModeIntervalRef' = ~gameWon]_vars
    /\ (last.kind = "click" /\ last.wasAutoMode) ~> isAutoMode

\* the resume timer of a click made in auto mode has fired right after it:
\* auto mode is on again, the interval is live and has a move to make on
\* the board the click committed
C14_Witness ==
    /\ last.kind = "resume"
    /\ ~last.wasAutoMode
    /\ isAutoMode
    /\ autoModeIntervalRef
    /\ pendingResume = 0
    /\ findFirstClickablePanel(board, boardSize) # NoPosition

\* the board the latest move produced: committed, or queued for its render
LatestBoard ==
    IF pendingTick.state = "queued" THEN pendingTick.finalBoard ELSE board

\* C15: moves are strictly sequential under every interleaving of ticks and
\* clicks: each move is computed from the board the move before it (or the
\* reset) produced, so no two moves are computed from the same board, and
\* no move is overwritten by a move computed from an older board.
C15_Sequential ==
    [][last'.kind \in Moves =>
           /\ last'.from = LatestBoard
           /\ pendingTick.state = "queued" =>
                  pendingTick'.state # "overwritten"]_vars

\* ------------------------------------------------- the claims on the tiles
IsPowerOfTwo(v) == \E k \in 0..(TargetExp + 2) : v = 2^k

AllPowersOfTwo(b, n) ==
    \A p \in Cells(n) : b[p[1]][p[2]] # NULL => IsPowerOfTwo(b[p[1]][p[2]])

\* C16: every non-empty cell holds a power of two, on the committed board
\* and on the boards a move goes through, and the tile a merge writes is
\* exactly twice the value the region's members share.
C16_PowersOfTwo ==
    /\ AllPowersOfTwo(board, boardSize)
    /\ last.kind \in Moves =>
           LET n == boardSize
               R == Region(last.from, n, <<last.row, last.col>>)
               v == last.from[last.row][last.col]
               d == Destination(R)
           IN  /\ \A p \in R : last.from[p[1]][p[2]] = v
               /\ last.newValue = 2 * v
               /\ last.newBoard[d[1]][d[2]] = 2 * v
               /\ AllPowersOfTwo(last.newBoard, n)
               /\ AllPowersOfTwo(last.gravityBoard, n)

\* a merge of tiles made by earlier merges, on a board that also holds
\* other powers of two
C16_Witness ==
    /\ last.kind \in Moves
    /\ last.from[last.row][last.col] = 4
    /\ last.newValue = 8
    /\ \E p \in Cells(boardSize) : board[p[1]][p[2]] = 1
    /\ \E p \in Cells(boardSize) : board[p[1]][p[2]] = 2

\* where applyGravity puts the tile of cell d: above the tiles below it in
\* its column, in the column counted among the columns that hold a tile
AfterGravity(b, n, d) ==
    <<n - 1 - Cardinality({r \in Idx(n) : r > d[1] /\ b[r][d[2]] # NULL}),
      Cardinality({c \in Idx(n) : c < d[2] /\ ColumnHasTile(b, n, c)})>>

\* the cell of the committed board that holds the tile the last move made
CreatedTile ==
    AfterGravity(last.newBoard, boardSize,
                 Destination(Region(last.from, boardSize,
                                    <<last.row, last.col>>)))

\* C17: after every successful move convertedPanelPosition is the cell of
\* the committed board in which the tile made by that merge sits, also when
\* other tiles of the same value are on the board.
C17_ConvertedPosition ==
    last.kind \in Moves => convertedPanelPosition = CreatedTile

\* the cell CreatedTile does hold the new value after gravity and refill
CreatedTileHoldsNewValue ==
    last.kind \in Moves =>
        /\ last.gravityBoard[CreatedTile[1]][CreatedTile[2]] = last.newValue
        /\ board[CreatedTile[1]][CreatedTile[2]] = last.newValue

\* ---------------------------------------- the claims on the merge step
\* C18: in a move on a full board gravity does not displace the merged
\* tile: the cell (maxRow, leftmostCol) of the board after gravity holds
\* twice the region's value, every cell below the destination in its column
\* is outside the region, and every column the removal empties lies
\* strictly to the right of the destination's column.
C18_MergedTileStays ==
    hPc = "merged" =>
        LET R == Region(hIn, HSize, hSeed)
            v == hIn[hSeed[1]][hSeed[2]]
            d == Destination(R)
        IN  /\ hOut2[d[1]][d[2]] = 2 * v
            /\ \A r \in Idx(HSize) : r > d[1] => <<r, d[2]>> \notin R
            /\ \A c \in Idx(HSize) : ~ColumnHasTile(hOut, HSize, c) => c > d[2]

\* the removal empties a column with tiles on its right, which gravity
\* moves left, and takes the tile above the destination away
C18_Witness ==
    /\ hPc = "merged"
    /\ \E c \in Idx(HSize) :
         /\ ~ColumnHasTile(hOut, HSize, c)
         /\ c < HSize - 1
         /\ ColumnHasTile(hOut, HSize, c + 1)
    /\ LET d == Destination(Region(hIn, HSize, hSeed))
       IN  /\ d[1] > 0
           /\ hOut[d[1] - 1][d[2]] = NULL

\* ----------------------------------------- the claims on reset and resize
\* C19: after resetGame or handleBoardSizeChange auto mode is off and stays
\* off until the user checks the auto mode checkbox: no callback scheduled
\* before the reset, the 100 ms resume timer in particular, turns it on.
C19_OffUntilToggled == resetSinceToggle => ~isAutoMode

\* ---------------------------------------------- the claims on full boards
\* C20: every committed board is full in every reachable state, so a click
\* is never rejected for an empty cell: a rejected click is a click on a
\* tile of a won game.
C20_BoardFull ==
    /\ \A p \in Cells(boardSize) : board[p[1]][p[2]] # NULL
    /\ last.kind = "rejected" =>
           /\ gameWon
           /\ last.from[last.row][last.col] # NULL

\* a move whose removal left three cells empty, all refilled
C20_Witness ==
    /\ last.kind \in Moves
    /\ Cardinality({p \in Cells(boardSize) :
                       last.gravityBoard[p[1]][p[2]] = NULL}) = 3
    /\ \A p \in Cells(boardSize) : board[p[1]][p[2]] # NULL

\* ------------------------------------------------ the claims on the target
NoTileAbove(b, n) == \A p \in Cells(n) : b[p[1]][p[2]] <= TARGET_NUMBER

\* C21: in every reachable state no tile exceeds TARGET_NUMBER, on the
\* committed board and on the board of an update awaiting its render, and
\* no move merges a region of tiles holding TARGET_NUMBER, whatever the
\* order of clicks, ticks, resets and size changes.
C21_TargetIsMax ==
    /\ NoTileAbove(board, boardSize)
    /\ pendingTick.state # "none" => NoTileAbove(pendingTick.finalBoard, boardSize)
    /\ last.kind \in Moves =>
           /\ last.from[last.row][last.col] # TARGET_NUMBER
           /\ last.newValue <= TARGET_NUMBER
           /\ NoTileAbove(last.newBoard, boardSize)

\* the game is won and the tile holding TARGET_NUMBER, with a tile next to
\* it, has been clicked
C21_Witness ==
    /\ gameWon
    /\ boardSize > 1
    /\ last.kind = "rejected"
    /\ last.from = board
    /\ board[last.row][last.col] = TARGET_NUMBER

====
